---- MODULE Spec2Model ----
(***************************************************************************)
(* FeatureVisualizer of 10_feature_visualization.ipynb: activation         *)
(* maximisation over a pretrained model.  Tensor values are abstracted to  *)
(* what the code does with them: their shape, the tensor object they live  *)
(* in, the number of optimizer updates their content went through, and the *)
(* set of backward passes accumulated in their gradient buffer.            *)
(***************************************************************************)
EXTENDS Integers, Sequences, FiniteSets, Bags, TLC

\* ------------------------------------------------------------------ bounds
NLayers == 2             \* len(model.features) of the models in scope
NChannels == 2           \* channels of every layer's activation map
MaxNSteps == 2           \* n_steps is drawn from 0..MaxNSteps
MaxUpscalingSteps == 3   \* upscaling_steps is drawn from 0..MaxUpscalingSteps
MaxImsize == 3           \* imsize is drawn from 1..MaxImsize
MaxCalls == 2            \* method calls made on the visualizer
HookImsize == 2          \* the imsize of the calls whose sizes are not studied

Models == {"m1", "m2"}

\* upscaling_factor as <<numerator, denominator>>.  The denominators are powers
\* of two, so upscaling_factor**j * imsize is exact in double precision and
\* int() of it is the floor of the exact product.
Factors == {<<1, 2>>, <<1, 1>>, <<3, 2>>, <<2, 1>>}

VARIABLES
    globalModel,  \* the object bound to the notebook-level name `model`
    selfModel,    \* self.model
    hooks,        \* bag of the forward hooks attached to layers: [m, l, call]
    weights,      \* per model: version of its parameter values
    wGrad,        \* per model: TRUE iff its parameters' .grad holds a gradient
    ncalls,       \* number of calls made so far; the running call's number
    outcome,      \* how the last call ended, as its caller saw it: [res, at]
    pc,           \* position in the running method, "idle" between calls
    args,         \* arguments of the last call
    j, i,         \* loop variables of create_feature_maximizer
    img,          \* local img: [tid, shape, updates, grad]
    optimizer,    \* local optimizer: [params, t]
    outputs,      \* local list outputs, filled by hook_fn
    hook,         \* local handle returned by register_forward_hook
    loss,         \* local loss
    result        \* value returned by the last call that returned

vars == <<globalModel, selfModel, hooks, weights, wGrad, ncalls, outcome, pc,
          args, j, i, img, optimizer, outputs, hook, loss, result>>

\* ----------------------------------------------------- values of the locals
NoArgs == [layer_index |-> 0, kernel_index |-> 0, n_steps |-> 0, imsize |-> 0,
           upscaling_steps |-> 0, upscaling_factor |-> <<1, 1>>]
NoImg == [tid |-> 0, shape |-> <<>>, updates |-> 0, grad |-> {}]
NoOptimizer == [params |-> {}, t |-> 0]
NoHook == [m |-> "none", l |-> 0, call |-> 0]
NoLoss == [m |-> "none", l |-> 0, ch |-> 0, step |-> <<0, 0, 0>>]
NoResult == [kind |-> "none", shape |-> <<>>, updates |-> 0,
             src |-> [m |-> "none", l |-> 0, step |-> <<0, 0, 0>>]]

\* ------------------------------------------------------------ pure helpers
\* Python sequence indexing: k is valid for length n iff -n <= k < n
InRange(k, n) == k >= -n /\ k < n
PyIndex(k, n) == IF k < 0 THEN k + n ELSE k

RECURSIVE Pow(_, _)
Pow(b, e) == IF e = 0 THEN 1 ELSE b * Pow(b, e - 1)

\* numpy squeeze(): drop every axis of length 1
Squeeze(shape) == SelectSeq(shape, LAMBDA d : d # 1)

\* tensor ids: the image tensor of round j, and a model's parameters
ImgTensor(n) == <<"img", n>>
ParamTensor(m) == <<"param", m>>

CurStep == <<ncalls, j, i>>

SzBumped(jj, imsize, f) == (Pow(f[1], jj + 1) * imsize) \div Pow(f[2], jj + 1)
\* sz = int(upscaling_factor**j * imsize)
Sz(jj, imsize, f) == (Pow(f[1], jj) * imsize) \div Pow(f[2], jj)

\* the random image of lines 72-74, shape (1, 3, imsize, imsize)
RandomImg(imsize) ==
    [tid |-> 0, shape |-> <<1, 3, imsize, imsize>>, updates |-> 0, grad |-> {}]

UpscaledFresh(old, jj, sz) ==
    [tid |-> jj + 1, shape |-> <<1, 3, sz, sz>>, updates |-> 0, grad |-> {}]
\* lines 80-83: squeeze, transpose(1,2,0), resize to (sz, sz), transpose(2,0,1),
\* unsqueeze(0), clone().detach().requires_grad_(True): a new leaf tensor that
\* carries the old content and no gradient
Upscaled(old, jj, sz) ==
    [tid |-> jj + 1, shape |-> <<1, 3, sz, sz>>, updates |-> old.updates,
     grad |-> {}]

OptimizerWithModel(im) ==
    [params |-> {ImgTensor(im.tid)} \cup {ParamTensor(m) : m \in Models}, t |-> 0]
\* torch.optim.Adam([img], ...)
NewOptimizer(im) == [params |-> {ImgTensor(im.tid)}, t |-> 0]

InnerRangeShort(ii, n) == ii + 1 < n
\* for i in range(n_steps)
InnerRange(ii, n) == ii < n

KeepOutputs(outs) == outs
\* outputs = []
FreshOutputs(outs) == <<>>

\* the model named by `model` at lines 100 and 103
MaximizerModel == globalModel

HooksKept(hs, h) == hs
\* hook.remove()
HooksAfterRemove(hs, h) == hs (-) SetToBag({h})

HooksCleanedOnRaise(hs, h) == hs (-) SetToBag({h})
\* an exception leaves the method at once: no try/finally around the hook
HooksOnRaise(hs, h) == hs

\* register_forward_hook: one more hook on the layer
HooksAfterRegister(hs, h) == hs (+) SetToBag({h})

\* The forward pass of model m runs its layers in order; after each layer every
\* hook attached to it is called.  hook_fn appends to the list `outputs` of the
\* call that defined it: the hooks of the running call fill its list, the lists
\* of finished calls are read by nobody and are not kept.
RECURSIVE FireLayer(_, _, _, _)
FireLayer(n, m, l, outs) ==
    IF n = 0 THEN outs
    ELSE FireLayer(n - 1, m, l,
                   Append(outs, [m |-> m, l |-> l, step |-> CurStep]))

RECURSIVE Forward(_, _, _)
Forward(m, l, outs) ==
    IF l >= NLayers THEN outs
    ELSE Forward(m, l + 1,
                 FireLayer(CopiesIn([m |-> m, l |-> l, call |-> ncalls], hooks),
                           m, l, outs))

\* --------------------------------------------------------------- the inputs
Steps == 0 .. MaxNSteps
Rounds == 0 .. MaxUpscalingSteps

HookArgs ==
    [layer_index : -1 .. NLayers, kernel_index : -1 .. NChannels,
     n_steps : Steps, imsize : {HookImsize}, upscaling_steps : Rounds,
     upscaling_factor : {<<3, 2>>}]

SizeArgs ==
    [layer_index : {0}, kernel_index : {0}, n_steps : Steps,
     imsize : 1 .. MaxImsize, upscaling_steps : Rounds,
     upscaling_factor : Factors]

\* --------------------------------------------------------------------- Init
Init ==
    /\ globalModel = "m1"
    /\ selfModel \in Models
    /\ hooks = EmptyBag
    /\ weights = [m \in Models |-> 0]
    /\ wGrad = [m \in Models |-> FALSE]
    /\ ncalls = 0
    /\ outcome = [res |-> "none", at |-> "idle"]
    /\ pc = "idle"
    /\ args = NoArgs
    /\ j = 0
    /\ i = 0
    /\ img = NoImg
    /\ optimizer = NoOptimizer
    /\ outputs = <<>>
    /\ hook = NoHook
    /\ loss = NoLoss
    /\ result = NoResult

Globals == <<globalModel, selfModel>>

\* the locals of a method go away when it returns or raises
DropLocals ==
    /\ pc' = "idle"
    /\ j' = 0
    /\ i' = 0
    /\ img' = NoImg
    /\ optimizer' = NoOptimizer
    /\ outputs' = <<>>
    /\ hook' = NoHook
    /\ loss' = NoLoss

Finished(res) ==
    /\ outcome' = [res |-> res, at |-> pc]
    /\ UNCHANGED <<ncalls, args>>

\* an exception propagates to the caller from position pc
Raise ==
    /\ Finished("raised")
    /\ DropLocals
    /\ UNCHANGED <<Globals, weights, wGrad, result>>

\* ------------------------------------------------ create_feature_maximizer
CallMaximizer(A) ==
    /\ pc = "idle"
    /\ ncalls < MaxCalls
    /\ \E a \in A :
        /\ args' = a
        /\ img' = RandomImg(a.imsize)
    /\ ncalls' = ncalls + 1
    /\ outcome' = [res |-> "running", at |-> "idle"]
    /\ result' = NoResult
    /\ j' = 0
    /\ i' = 0
    /\ pc' = "outer"
    /\ UNCHANGED <<Globals, hooks, weights, wGrad, optimizer, outputs, hook,
                   loss>>

\* lines 79-87: one pass of `for j in range(upscaling_steps)` up to the optimizer
OuterResize ==
    /\ pc = "outer"
    /\ j < args.upscaling_steps
    /\ Len(Squeeze(img.shape)) = 3
    /\ img' = Upscaled(img, j, Sz(j, args.imsize, args.upscaling_factor))
    /\ optimizer' = NewOptimizer(img')
    /\ i' = 0
    /\ pc' = "inner"
    /\ UNCHANGED <<Globals, hooks, weights, wGrad, ncalls, outcome, args, j, outputs,
                   hook, loss, result>>

\* line 80: transpose(1,2,0) of an array that squeeze() left with fewer than
\* three axes raises ValueError
OuterResizeRaises ==
    /\ pc = "outer"
    /\ j < args.upscaling_steps
    /\ Len(Squeeze(img.shape)) # 3
    /\ hooks' = hooks
    /\ Raise

\* lines 121-128: the outer loop is over; img as numpy, channels last
Return ==
    /\ pc = "outer"
    /\ j >= args.upscaling_steps
    /\ Len(Squeeze(img.shape)) = 3
    /\ LET s == Squeeze(img.shape)
       IN result' = [kind |-> "image", shape |-> <<s[2], s[3], s[1]>>,
                     updates |-> img.updates, src |-> NoResult.src]
    /\ Finished("returned")
    /\ DropLocals
    /\ UNCHANGED <<Globals, hooks, weights, wGrad>>

\* line 121: np.moveaxis(..., 0, 2) of an array with fewer than three axes
ReturnRaises ==
    /\ pc = "outer"
    /\ j >= args.upscaling_steps
    /\ Len(Squeeze(img.shape)) # 3
    /\ hooks' = hooks
    /\ Raise

\* line 92: optimizer.zero_grad() clears the .grad of the optimizer's parameters
ZeroGrad ==
    /\ pc = "inner"
    /\ InnerRange(i, args.n_steps)
    /\ img' = [img EXCEPT !.grad = IF ImgTensor(img.tid) \in optimizer.params
                                   THEN {} ELSE @]
    /\ wGrad' = [m \in Models |->
                    IF ParamTensor(m) \in optimizer.params THEN FALSE
                    ELSE wGrad[m]]
    /\ pc' = "hook"
    /\ UNCHANGED <<Globals, hooks, weights, ncalls, outcome, args, j, i, optimizer,
                   outputs, hook, loss, result>>

\* the inner loop is exhausted: next j
InnerDone ==
    /\ pc = "inner"
    /\ ~InnerRange(i, args.n_steps)
    /\ j' = j + 1
    /\ pc' = "outer"
    /\ UNCHANGED <<Globals, hooks, weights, wGrad, ncalls, outcome, args, i, img,
                   optimizer, outputs, hook, loss, result>>

\* lines 95-100
RegisterHook ==
    /\ pc = "hook"
    /\ InRange(args.layer_index, NLayers)
    /\ outputs' = FreshOutputs(outputs)
    /\ hook' = [m |-> MaximizerModel, l |-> PyIndex(args.layer_index, NLayers),
                call |-> ncalls]
    /\ hooks' = HooksAfterRegister(hooks, hook')
    /\ pc' = "forward"
    /\ UNCHANGED <<Globals, weights, wGrad, ncalls, outcome, args, j, i, img, optimizer,
                   loss, result>>

\* line 100: features[layer_index] raises IndexError, nothing is registered
RegisterHookRaises ==
    /\ pc = "hook"
    /\ ~InRange(args.layer_index, NLayers)
    /\ hooks' = hooks
    /\ Raise

\* line 103
ForwardPass ==
    /\ pc = "forward"
    /\ outputs' = Forward(MaximizerModel, 0, outputs)
    /\ pc' = "loss"
    /\ UNCHANGED <<Globals, hooks, weights, wGrad, ncalls, outcome, args, j, i, img,
                   optimizer, hook, loss, result>>

\* line 103: the model rejects the image
ForwardRaises ==
    /\ pc = "forward"
    /\ hooks' = HooksOnRaise(hooks, hook)
    /\ Raise

\* line 106
Loss ==
    /\ pc = "loss"
    /\ Len(outputs) >= 1
    /\ InRange(args.kernel_index, NChannels)
    /\ loss' = [m |-> outputs[1].m, l |-> outputs[1].l,
                ch |-> PyIndex(args.kernel_index, NChannels),
                step |-> outputs[1].step]
    /\ pc' = "backward"
    /\ UNCHANGED <<Globals, hooks, weights, wGrad, ncalls, outcome, args, j, i, img,
                   optimizer, outputs, hook, result>>

\* line 106: outputs[0] or [0, kernel_index] raises IndexError
LossRaises ==
    /\ pc = "loss"
    /\ (Len(outputs) = 0 \/ ~InRange(args.kernel_index, NChannels))
    /\ hooks' = HooksOnRaise(hooks, hook)
    /\ Raise

\* line 112: gradients are accumulated into every leaf of the graph that
\* requires grad: the image and the parameters of the model that was run
Backward ==
    /\ pc = "backward"
    /\ img' = [img EXCEPT !.grad = @ \cup {loss.step}]
    /\ wGrad' = [wGrad EXCEPT ![loss.m] = TRUE]
    /\ pc' = "optstep"
    /\ UNCHANGED <<Globals, hooks, weights, ncalls, outcome, args, j, i, optimizer,
                   outputs, hook, loss, result>>

\* line 112: autograd fails
BackwardRaises ==
    /\ pc = "backward"
    /\ hooks' = HooksOnRaise(hooks, hook)
    /\ Raise

\* line 115: Adam updates each of its parameters that has a gradient
OptimizerStep ==
    /\ pc = "optstep"
    /\ img' = [img EXCEPT !.updates =
                  IF ImgTensor(img.tid) \in optimizer.params /\ img.grad # {}
                  THEN @ + 1 ELSE @]
    /\ weights' = [m \in Models |->
                      IF ParamTensor(m) \in optimizer.params /\ wGrad[m]
                      THEN weights[m] + 1 ELSE weights[m]]
    /\ optimizer' = [optimizer EXCEPT !.t = @ + 1]
    /\ pc' = "remove"
    /\ UNCHANGED <<Globals, hooks, wGrad, ncalls, outcome, args, j, i, outputs, hook,
                   loss, result>>

\* line 118, and the loop's next i
RemoveHook ==
    /\ pc = "remove"
    /\ hooks' = HooksAfterRemove(hooks, hook)
    /\ i' = i + 1
    /\ pc' = "inner"
    /\ UNCHANGED <<Globals, weights, wGrad, ncalls, outcome, args, j, img, optimizer,
                   outputs, hook, loss, result>>

\* ---------------------------------------------- get_mean_layer_activations
\* lines 139-157: outputs = [], the image is loaded
CallActivations ==
    /\ pc = "idle"
    /\ ncalls < MaxCalls
    /\ \E l \in -1 .. NLayers : args' = [NoArgs EXCEPT !.layer_index = l]
    /\ ncalls' = ncalls + 1
    /\ outcome' = [res |-> "running", at |-> "idle"]
    /\ result' = NoResult
    /\ outputs' = <<>>
    /\ pc' = "g_load"
    /\ UNCHANGED <<Globals, hooks, weights, wGrad, j, i, img, optimizer, hook,
                   loss>>

\* line 157
LoadImage ==
    /\ pc = "g_load"
    /\ pc' = "g_hook"
    /\ UNCHANGED <<Globals, hooks, weights, wGrad, ncalls, outcome, args, j, i, img,
                   optimizer, outputs, hook, loss, result>>

\* line 150: Image.open fails on image_path
LoadImageRaises ==
    /\ pc = "g_load"
    /\ hooks' = hooks
    /\ Raise

\* line 160
ActRegisterHook ==
    /\ pc = "g_hook"
    /\ InRange(args.layer_index, NLayers)
    /\ hook' = [m |-> selfModel, l |-> PyIndex(args.layer_index, NLayers),
                call |-> ncalls]
    /\ hooks' = HooksAfterRegister(hooks, hook')
    /\ pc' = "g_forward"
    /\ UNCHANGED <<Globals, weights, wGrad, ncalls, outcome, args, j, i, img, optimizer,
                   outputs, loss, result>>

\* line 160: IndexError
ActRegisterHookRaises ==
    /\ pc = "g_hook"
    /\ ~InRange(args.layer_index, NLayers)
    /\ hooks' = hooks
    /\ Raise

\* line 161
ActForward ==
    /\ pc = "g_forward"
    /\ outputs' = Forward(selfModel, 0, outputs)
    /\ pc' = "g_remove"
    /\ UNCHANGED <<Globals, hooks, weights, wGrad, ncalls, outcome, args, j, i, img,
                   optimizer, hook, loss, result>>

\* line 161: the model rejects the image
ActForwardRaises ==
    /\ pc = "g_forward"
    /\ hooks' = HooksOnRaise(hooks, hook)
    /\ Raise

\* line 162
ActRemoveHook ==
    /\ pc = "g_remove"
    /\ hooks' = HooksAfterRemove(hooks, hook)
    /\ pc' = "g_mean"
    /\ UNCHANGED <<Globals, weights, wGrad, ncalls, outcome, args, j, i, img, optimizer,
                   outputs, hook, loss, result>>

\* lines 163-164
ActReturn ==
    /\ pc = "g_mean"
    /\ Len(outputs) >= 1
    /\ result' = [NoResult EXCEPT !.kind = "activations", !.src = outputs[1]]
    /\ Finished("returned")
    /\ DropLocals
    /\ UNCHANGED <<Globals, hooks, weights, wGrad>>

\* ------------------------------------------------------------ specifications
\* the steps of create_feature_maximizer that every set of inputs reaches
MaximizerSteps ==
    \/ OuterResize
    \/ Return
    \/ ZeroGrad
    \/ InnerDone
    \/ RegisterHook
    \/ ForwardPass
    \/ ForwardRaises
    \/ Loss
    \/ Backward
    \/ BackwardRaises
    \/ OptimizerStep
    \/ RemoveHook

ActivationSteps ==
    \/ LoadImage
    \/ LoadImageRaises
    \/ ActRegisterHook
    \/ ActRegisterHookRaises
    \/ ActForward
    \/ ActForwardRaises
    \/ ActRemoveHook
    \/ ActReturn

\* Both methods, every layer and kernel index, one image size and factor.  The
\* image never has a side of 1 here, so lines 80 and 121 do not raise.
Next ==
    \/ CallMaximizer(HookArgs)
    \/ CallActivations
    \/ MaximizerSteps
    \/ RegisterHookRaises
    \/ LossRaises
    \/ ActivationSteps

Spec == Init /\ [][Next]_vars

\* create_feature_maximizer alone, every image size and upscaling factor, on
\* layer 0 and kernel 0, which exist: lines 100 and 106 raise no IndexError.
NextSizes ==
    \/ CallMaximizer(SizeArgs)
    \/ MaximizerSteps
    \/ OuterResizeRaises
    \/ ReturnRaises

SpecSizes == Init /\ [][NextSizes]_vars

\* -------------------------------------------------------------------- claims
\* positions of one inner iteration, and of one round
IterationPcs == {"hook", "forward", "loss", "backward", "optstep", "remove"}
RoundPcs == {"inner"} \cup IterationPcs

\* the last call was create_feature_maximizer and it returned the image
Returned == pc = "idle" /\ outcome.res = "returned" /\ result.kind = "image"

\* the last call raised while its hook was registered and not yet removed
RaisedHooked ==
    /\ pc = "idle"
    /\ outcome.res = "raised"
    /\ outcome.at \in {"forward", "loss", "backward", "g_forward"}

\* s is the floor of upscaling_factor^k * imsize
IsFloorSide(s, k, imsize, f) ==
    /\ s * Pow(f[2], k) <= Pow(f[1], k) * imsize
    /\ Pow(f[1], k) * imsize < (s + 1) * Pow(f[2], k)

\* hooks attached by call c, and by calls before c, to layer l of model m
HooksOfCall(c) == {h \in BagToSet(hooks) : h.call = c}
EarlierOnLayer(hs, m, l, c) ==
    {h \in BagToSet(hs) : h.m = m /\ h.l = l /\ h.call < c}

\* C1: the loss that is about to be differentiated is the activation of channel
\* kernel_index (Python indexing) of layer features[layer_index], recorded by
\* the forward pass of this very step of this very call.
C1_LossOfThisStep ==
    pc = "backward" =>
        /\ loss.l = PyIndex(args.layer_index, NLayers)
        /\ loss.ch = PyIndex(args.kernel_index, NChannels)
        /\ loss.step = <<ncalls, j, i>>

\* C1 witness: a later step of a second call, while a hook that the first call
\* left behind is attached to the same layer
C1_Witness ==
    /\ pc = "backward"
    /\ ncalls = 2
    /\ i >= 1
    /\ j >= 1
    /\ args.kernel_index = -1
    /\ [m |-> loss.m, l |-> loss.l, call |-> 1] \in BagToSet(hooks)

\* C2: every hook is registered on self.model and every recorded activation
\* comes from a forward pass of self.model.
C2_OnSelfModel ==
    /\ \A h \in BagToSet(hooks) : h.m = selfModel
    /\ \A k \in 1 .. Len(outputs) : outputs[k].m = selfModel

C5_State ==
    /\ pc = "forward" =>
          /\ HooksOfCall(ncalls) = {hook}
          /\ CopiesIn(hook, hooks) = 1
          /\ hook.l = PyIndex(args.layer_index, NLayers)
    /\ pc = "loss" => Len(outputs) = 1
    /\ Returned =>
          /\ HooksOfCall(ncalls) = {}
          /\ result.updates = args.upscaling_steps * args.n_steps

\* C5, the order: from each position of an iteration the next one is the next
\* step of the fixed order (or the call ends by raising), and the step has acted.
C5_Order ==
    /\ (pc = "inner" /\ pc' = "hook") => img'.grad = {}
    /\ pc = "inner" => pc' \in {"inner", "hook", "outer"}
    /\ pc = "hook" => pc' \in {"hook", "forward", "idle"}
    /\ (pc = "hook" /\ pc' = "forward") =>
          CopiesIn(hook', hooks') = CopiesIn(hook', hooks) + 1
    /\ pc = "forward" => pc' \in {"forward", "loss", "idle"}
    /\ (pc = "forward" /\ pc' = "loss") => Len(outputs') = Len(outputs) + 1
    /\ pc = "loss" => pc' \in {"loss", "backward", "idle"}
    /\ pc = "backward" => pc' \in {"backward", "optstep", "idle"}
    /\ (pc = "backward" /\ pc' = "optstep") => <<ncalls, j, i>> \in img'.grad
    /\ pc = "optstep" => pc' \in {"optstep", "remove"}
    /\ (pc = "optstep" /\ pc' = "remove") => img'.updates = img.updates + 1
    /\ pc = "remove" => pc' \in {"remove", "inner"}
    /\ (pc = "remove" /\ pc' = "inner") =>
          /\ CopiesIn(hook, hooks') = CopiesIn(hook, hooks) - 1
          /\ i' = i + 1
    /\ (pc = "inner" /\ pc' = "outer") => i = args.n_steps
    /\ (pc = "outer" /\ pc' = "inner") => i' = 0 /\ j < args.upscaling_steps
    /\ (pc = "outer" /\ pc' = "idle" /\ outcome'.res = "returned") =>
          j = args.upscaling_steps

\* C5: every inner iteration runs zero-gradient, register hook, forward pass,
\* loss, backward pass, optimizer step, remove hook in this order, with exactly
\* one hook of the call attached at the forward pass and one recorded output at
\* the loss; a call that returns ran upscaling_steps * n_steps iterations and
\* leaves none of its hooks attached.
C5_FixedOrder == []C5_State /\ [][C5_Order]_vars

\* C5 witness: the forward pass of a later iteration of a second call, with a
\* hook of the first call still attached to the same layer
C5_Witness ==
    /\ pc = "forward"
    /\ ncalls = 2
    /\ i = 1
    /\ j = 1
    /\ [hook EXCEPT !.call = 1] \in BagToSet(hooks)

\* C6, the states of round j: the image is 1 x 3 x s x s with
\* s = floor(upscaling_factor^j * imsize); its content went through the
\* j * n_steps updates of the rounds before plus the updates of this round's
\* optimizer, whose step count started at zero in this round.
C6_State ==
    pc \in RoundPcs =>
        LET s == img.shape[3]
            t == IF pc = "remove" THEN i + 1 ELSE i
        IN /\ img.shape = <<1, 3, s, s>>
           /\ IsFloorSide(s, j, args.imsize, args.upscaling_factor)
           /\ optimizer.t = t
           /\ img.updates = j * args.n_steps + optimizer.t

\* C6, from round to round: with upscaling_factor >= 1 the side does not
\* decrease when a round resizes the image.
C6_Grows ==
    (pc = "outer" /\ pc' = "inner"
        /\ args.upscaling_factor[1] >= args.upscaling_factor[2]) =>
        img'.shape[3] >= img.shape[3]

\* C6: round j works at side floor(upscaling_factor^j * imsize), the side never
\* decreases for upscaling_factor >= 1, and each round starts from the resized
\* result of the round before with a new optimizer.
C6_ProgressiveUpscaling == []C6_State /\ [][C6_Grows]_vars

\* C6 witness: the start of round 2 after two rounds of two updates, imsize 3
\* and factor 3/2: side floor(6.75) = 6
C6_Witness ==
    /\ pc = "inner"
    /\ i = 0
    /\ j = 2
    /\ args.imsize = 3
    /\ args.upscaling_factor = <<3, 2>>
    /\ img.shape = <<1, 3, 6, 6>>
    /\ img.updates = 4
    /\ optimizer.t = 0

\* C7, after the failed call: the hook it registered is still attached, once,
\* to layer layer_index, next to the hooks earlier calls left on that layer.
C7_State ==
    RaisedHooked =>
        \E h \in HooksOfCall(ncalls) :
            /\ HooksOfCall(ncalls) = {h}
            /\ CopiesIn(h, hooks) = 1
            /\ h.l = PyIndex(args.layer_index, NLayers)
            /\ Cardinality({g \in BagToSet(hooks) : g.m = h.m /\ g.l = h.l})
                 = Cardinality(EarlierOnLayer(hooks, h.m, h.l, ncalls)) + 1

\* C7, raising: the step that raises removes no hook, and no step ever removes
\* a hook that an earlier call left behind.
C7_Keep ==
    /\ (pc \in {"forward", "loss", "backward", "g_forward"} /\ pc' = "idle") =>
          hooks' = hooks /\ CopiesIn(hook, hooks') = 1
    /\ \A h \in BagToSet(hooks) :
          h.call < ncalls => CopiesIn(h, hooks') = CopiesIn(h, hooks)

\* C7: a method that raises between registering and removing its hook leaves
\* the hook attached, and every further failed call adds one more.
C7_HookLeaks == []C7_State /\ [][C7_Keep]_vars

\* C7 witness: two calls failed on the same layer, which now carries two hooks
C7_Witness ==
    /\ RaisedHooked
    /\ ncalls = 2
    /\ \E h \in HooksOfCall(2) :
          /\ [h EXCEPT !.call = 1] \in BagToSet(hooks)
          /\ BagCardinality(hooks) = 2

\* C8: the optimizer's parameters are exactly the current image tensor, no
\* model's weights ever change, and the gradient the optimizer step uses holds
\* the backward pass of this step alone.
C8_OnlyTheImage ==
    /\ \A m \in Models : weights[m] = 0
    /\ pc \in RoundPcs => optimizer.params = {ImgTensor(img.tid)}
    /\ pc = "optstep" => img.grad = {<<ncalls, j, i>>}

\* C8 witness: the optimizer step of a later iteration of a later round, the
\* model's parameters holding the gradients of the earlier backward passes
C8_Witness ==
    /\ pc = "optstep"
    /\ i >= 1
    /\ j >= 1
    /\ wGrad[globalModel]
    /\ img.updates >= 3

====
